---- MODULE Spec2Model ----
(***************************************************************************)
(* Time synchronisation of redvox station packets                          *)
(* (src/redvox/common/timesync.py): TimeSyncData, built once from a packet *)
(* and its station metadata, and TimeSyncAnalysis, which aggregates the    *)
(* TimeSyncData of a station, validates them and selects the best latency. *)
(* Data windows (src/redvox/common/data_window.py): DataWindow.read_data,  *)
(* which truncates the sensors of the loaded stations to a time window,    *)
(* and the functions gap_filler, data_padder and create_empty_df it uses.  *)
(* The error container RedVoxExceptions (src/redvox/common/errors.py) and  *)
(* the metadata functions of src/redvox/api1000/common.py.                 *)
(*                                                                         *)
(* Python values are tagged records [k, v]: None, NaN, an attribute that   *)
(* was never assigned (Unset) and numbers are kept apart, because the code *)
(* branches on exactly these differences.  Timestamps are microseconds;    *)
(* a value expressed in seconds is a separate record Sec(n) = n / 10^6 s.  *)
(***************************************************************************)
EXTENDS Integers, Sequences, FiniteSets, TLC

VARIABLES
    data_pack,               \* the packet last handed to TimeSyncData(...)
    station,                 \* the station metadata handed with it
    tsd,                     \* outcome of that construction: [kind, obj]
    timesync_data,           \* TimeSyncAnalysis.timesync_data
    best_latency_index,      \* TimeSyncAnalysis.best_latency_index
    station_start_timestamp, \* TimeSyncAnalysis.station_start_timestamp
    sample_rate_hz,          \* TimeSyncAnalysis.sample_rate_hz
    latency_stats,           \* TimeSyncAnalysis.latency_stats
    offset_stats,            \* TimeSyncAnalysis.offset_stats
    last,                    \* the last operation called and what it produced
    filling,                 \* a call of gap_filler: arguments and results
    padding,                 \* a call of data_padder: arguments and result
    window,                  \* a DataWindow: its fields, what was loaded, result
    exceptions,              \* a RedVoxExceptions object and the lists it made
    mapping                  \* a metadata mapping and the last call on it

vars == <<data_pack, station, tsd, timesync_data, best_latency_index,
          station_start_timestamp, sample_rate_hz, latency_stats,
          offset_stats, last, filling, padding, window, exceptions, mapping>>

tsdVars == <<data_pack, station, tsd>>

dwVars == <<filling, padding, window>>

libVars == <<exceptions, mapping>>

tsaVars == <<timesync_data, best_latency_index, station_start_timestamp,
             sample_rate_hz, latency_stats, offset_stats>>

----------------------------------------------------------------------------
(* Bounds of the model *)

MaxPackets == 3

MaxExchanges == 2

\* rows of a data frame handed to gap_filler or data_padder
MaxRows == 3

\* the timestamps of these rows are 0..MaxTime microseconds
MaxTime == 6

\* stations in the directory a DataWindow reads
MaxStations == 2

----------------------------------------------------------------------------
(* Python values *)

None == [k |-> "None", v |-> 0]

NaN == [k |-> "nan", v |-> 0]

Unset == [k |-> "unset", v |-> 0]

Num(n) == [k |-> "num", v |-> n]

Str(s) == [k |-> "str", v |-> s]

IsNum(x) == x.k = "num"

IsNone(x) == x.k = "None"

IsNaN(x) == x.k = "nan"

\* bool(x) of a float/int/None: None and 0 are falsy, NaN and the rest truthy
Truthy(x) == ~IsNone(x) /\ ~(IsNum(x) /\ x.v = 0)

\* a < b on floats: False when either side is NaN
PyLt(a, b) == IsNum(a) /\ IsNum(b) /\ a.v < b.v

\* a <= b on floats
PyLe(a, b) == IsNum(a) /\ IsNum(b) /\ a.v <= b.v

\* a != b of Python: None equals only None, NaN differs from everything
PyNe(a, b) ==
    IF IsNaN(a) \/ IsNaN(b) THEN TRUE
    ELSE IF IsNone(a) \/ IsNone(b) THEN ~(IsNone(a) /\ IsNone(b))
    ELSE a.v # b.v

\* a value in seconds: n / MICROSECONDS_IN_SECOND
Sec(n) == [k |-> "sec", v |-> n]

MICROSECONDS_IN_SECOND == 1000000

\* x / dt.MICROSECONDS_IN_SECOND of a microsecond timestamp
MicrosToSeconds(x) == Sec(x.v)

\* fh.get_duration_seconds_from_sample_rate
DurationSecondsFromSampleRate(rate) == 1

\* fh.get_num_points_from_sample_rate: duration_seconds * sample_rate
NumPointsFromSampleRate(rate) == DurationSecondsFromSampleRate(rate) * rate

\* dt.seconds_to_microseconds
SecondsToMicroseconds(s) == s * MICROSECONDS_IN_SECOND

----------------------------------------------------------------------------
(* TimeSyncData *)

\* the packet's time-sync exchanges with what TriMessageStats derives from
\* them; present = FALSE is data_pack.timesync = None
NoTimesync ==
    [present |-> FALSE, n |-> 0, best_latency_index |-> 0,
     best_latency |-> None, best_offset |-> None,
     mean_latency |-> None, latency_std |-> None,
     mean_offset |-> None, offset_std |-> None]

EmptyTimesync == [NoTimesync EXCEPT !.present = TRUE]

\* TimeSyncData(): no packet, no station
TimeSyncData0 ==
    [station_id |-> None, station_start_timestamp |-> None,
     sample_rate_hz |-> None, server_acquisition_time |-> None,
     packet_start_time |-> None, packet_end_time |-> None,
     packet_duration |-> Num(0), num_tri |-> 0,
     best_tri_msg_index |-> None, best_latency_index |-> None,
     best_latency |-> None, mean_latency |-> None, latency_std |-> None,
     best_offset |-> Num(0), mean_offset |-> Num(0), offset_std |-> Num(0),
     acquire_travel_time |-> None]

Ok(o) == [kind |-> "ok", obj |-> o]

Raise(e, o) == [kind |-> e, obj |-> o]

\* the else branch of _compute_tri_message_stats: no exchanges to read
NoExchangeDefaultsKeepExplicit(o) ==
    [o EXCEPT !.best_tri_msg_index = None, !.best_latency_index = None,
              !.mean_latency = NaN, !.latency_std = NaN,
              !.best_offset = IF o.best_offset = Unset THEN Num(0) ELSE @,
              !.mean_offset = Num(0), !.offset_std = Num(0)]

NoExchangeDefaults(o) ==
    [o EXCEPT !.best_tri_msg_index = None, !.best_latency_index = None,
              !.best_latency = None,
              !.mean_latency = NaN, !.latency_std = NaN,
              !.best_offset = Num(0),
              !.mean_offset = Num(0), !.offset_std = Num(0)]

\* TimeSyncData._compute_tri_message_stats on object o; tse is what
\* TriMessageStats computed from the exchanges
ComputeTriMessageStats(o, tse) ==
    IF o.num_tri > 0
    THEN LET o1 == [o EXCEPT !.mean_latency = tse.mean_latency,
                             !.latency_std = tse.latency_std,
                             !.mean_offset = tse.mean_offset,
                             !.offset_std = tse.offset_std,
                             !.best_latency_index = Num(tse.best_latency_index),
                             !.best_tri_msg_index = Num(tse.best_latency_index)]
         IN  IF IsNone(o1.best_latency)
             THEN Ok([o1 EXCEPT !.best_latency = tse.best_latency,
                                !.best_offset = tse.best_offset])
             ELSE IF o1.best_offset = Unset
             THEN Raise("AttributeError", o1)
             ELSE IF IsNum(o1.best_offset) /\ o1.best_offset.v = 0
             THEN Ok([o1 EXCEPT !.best_offset = tse.best_offset])
             ELSE Ok(o1)
    ELSE Ok(NoExchangeDefaults(o))

\* the last statement of get_timesync_data
AcquireTravelTimeNoOffset(o) ==
    Num(o.server_acquisition_time.v - o.packet_end_time.v)

AcquireTravelTime(o) ==
    Num(o.server_acquisition_time.v - (o.packet_end_time.v + o.best_offset.v))

\* TimeSyncData.__init__ with a packet, then get_timesync_data
GetTimesyncData(p, s) ==
    LET o0 == [TimeSyncData0 EXCEPT
                  !.best_offset = Unset,
                  !.station_id = s.station_id,
                  !.sample_rate_hz = s.audio_sample_rate_hz,
                  !.station_start_timestamp = s.station_start_timestamp,
                  !.server_acquisition_time = p.server_timestamp,
                  !.packet_start_time = p.packet_start_timestamp,
                  !.packet_end_time = p.packet_end_timestamp,
                  !.num_tri = IF p.timesync.present THEN p.timesync.n ELSE 0]
        o1 == IF Truthy(p.packet_best_latency)
              THEN [o0 EXCEPT !.best_latency = p.packet_best_latency] ELSE o0
        o2 == IF Truthy(p.packet_best_offset)
              THEN [o1 EXCEPT !.best_offset = p.packet_best_offset] ELSE o1
        r3 == ComputeTriMessageStats(o2, p.timesync)
    IN  IF r3.kind # "ok" THEN r3
        ELSE LET o4 == [r3.obj EXCEPT !.packet_duration =
                          Num(SecondsToMicroseconds(
                              DurationSecondsFromSampleRate(o2.sample_rate_hz.v)))]
             IN  Ok([o4 EXCEPT !.acquire_travel_time =
                                  AcquireTravelTime(o4)])

----------------------------------------------------------------------------
(* Inputs of the TimeSyncData construction *)

Station(id, rate, start) ==
    [station_id |-> Str(id), audio_sample_rate_hz |-> Num(rate),
     station_start_timestamp |-> Num(start)]

NoStation == [station_id |-> None, audio_sample_rate_hz |-> None,
              station_start_timestamp |-> None]

Stations == {Station(1, 2, 1), Station(1, 4, 1), Station(1, 2, 2)}

\* what TriMessageStats reports for n >= 1 exchanges
TriMessageResults ==
    [present : {TRUE}, n : 1..MaxExchanges, best_latency_index : {0},
     best_latency : {NaN, Num(-1), Num(2)}, best_offset : {Num(0), Num(3)},
     mean_latency : {Num(4)}, latency_std : {Num(1)},
     mean_offset : {Num(3)}, offset_std : {Num(1)}]

Timesyncs == {NoTimesync, EmptyTimesync} \cup TriMessageResults

Packets ==
    [server_timestamp : {Num(100)},
     packet_start_timestamp : {Num(10)},
     packet_end_timestamp : {Num(20), Num(30)},
     timesync : Timesyncs,
     packet_best_latency : {None, Num(0), NaN, Num(7)},
     packet_best_offset : {None, Num(0), Num(9), Num(-9)}]

NoPacket ==
    [server_timestamp |-> None, packet_start_timestamp |-> None,
     packet_end_timestamp |-> None, timesync |-> NoTimesync,
     packet_best_latency |-> None, packet_best_offset |-> None]

----------------------------------------------------------------------------
(* TimeSyncAnalysis *)

\* the fields of a TimeSyncAnalysis object
Self ==
    [timesync_data |-> timesync_data,
     best_latency_index |-> best_latency_index,
     station_start_timestamp |-> station_start_timestamp,
     sample_rate_hz |-> sample_rate_hz,
     latency_stats |-> latency_stats,
     offset_stats |-> offset_stats]

\* TimeSyncAnalysis(): no station
EmptyAnalysis ==
    [timesync_data |-> <<>>, best_latency_index |-> 0,
     station_start_timestamp |-> None, sample_rate_hz |-> Num(0),
     latency_stats |-> <<>>, offset_stats |-> <<>>]

\* the outcome of a call on the analysis: the exception raised or "ok", the
\* object afterwards, and the value returned
Ret(self, val) == [kind |-> "ok", self |-> self, val |-> val, list |-> <<>>]

RetList(self, list) == [kind |-> "ok", self |-> self, val |-> None, list |-> list]

Exc(e, self) == [kind |-> e, self |-> self, val |-> None, list |-> <<>>]

Bool(b) == [k |-> "bool", v |-> IF b THEN 1 ELSE 0]

\* self.timesync_data[i] with Python's index i (0-based)
At(self, i) == self.timesync_data[i + 1]

\* get_num_packets
GetNumPackets(self) == Len(self.timesync_data)

\* sh.StatsContainer.add, applied once per packet by _calc_timesync_stats
StatsOf(self, mean, std) ==
    [i \in 1..Len(self.timesync_data) |->
        [mean |-> self.timesync_data[i][mean],
         std_dev |-> self.timesync_data[i][std],
         count |-> self.timesync_data[i].num_tri * 2]]

\* _calc_timesync_stats
CalcTimesyncStats(self) ==
    IF Len(self.timesync_data) < 1 THEN Exc("ValueError", self)
    ELSE Ret([self EXCEPT
                 !.latency_stats = StatsOf(self, "mean_latency", "latency_std"),
                 !.offset_stats = StatsOf(self, "mean_offset", "offset_std")],
             None)

\* the test of evaluate_latencies: does the packet at index replace the
\* current best
ReplacesBestOrEqual(self, index, best) ==
    LET cand == At(self, index).best_latency
        cur == At(self, best).best_latency
    IN  ~IsNone(cand) /\ (IsNone(cur) \/ PyLe(cand, cur))

ReplacesBest(self, index, best) ==
    LET cand == At(self, index).best_latency
        cur == At(self, best).best_latency
    IN  ~IsNone(cand) /\ (IsNone(cur) \/ PyLt(cand, cur))

\* the loop of evaluate_latencies from index on, best being the current
\* best_latency_index
RECURSIVE EvaluateFrom(_, _, _)
EvaluateFrom(self, index, best) ==
    IF index >= GetNumPackets(self) THEN best
    ELSE EvaluateFrom(self, index + 1,
                      IF ReplacesBest(self, index, best) THEN index ELSE best)

\* evaluate_latencies
EvaluateLatencies(self) ==
    IF GetNumPackets(self) < 1 THEN Exc("ValueError", self)
    ELSE Ret([self EXCEPT !.best_latency_index =
                              EvaluateFrom(self, 1, self.best_latency_index)],
             None)

\* validate_start_timestamp
ValidateStartTimestamp(self) ==
    IF GetNumPackets(self) < 1 THEN Exc("ValueError", self)
    ELSE Ret(self, Bool(\A index \in 1..(GetNumPackets(self) - 1) :
                 ~PyNe(At(self, index).station_start_timestamp,
                       self.station_start_timestamp)))

\* validate_sample_rate
ValidateSampleRateNoNoneTest(self) ==
    IF GetNumPackets(self) < 1 THEN Exc("ValueError", self)
    ELSE Ret(self, Bool(\A index \in 1..(GetNumPackets(self) - 1) :
                 ~PyNe(At(self, index).sample_rate_hz, self.sample_rate_hz)))

ValidateSampleRate(self) ==
    IF GetNumPackets(self) < 1 THEN Exc("ValueError", self)
    ELSE Ret(self, Bool(\A index \in 1..(GetNumPackets(self) - 1) :
                 ~(IsNone(At(self, index).sample_rate_hz)
                   \/ PyNe(At(self, index).sample_rate_hz, self.sample_rate_hz))))

\* evaluate_and_validate_data taking both fields from the newest packet,
\* whatever the validations return
EvaluateAndValidateDataTakingNewest(self) ==
    LET r1 == CalcTimesyncStats(self) IN
    IF r1.kind # "ok" THEN r1 ELSE
    LET r2 == EvaluateLatencies(r1.self) IN
    IF r2.kind # "ok" THEN r2 ELSE
    Ret([r2.self EXCEPT
            !.station_start_timestamp =
                At(r2.self, GetNumPackets(r2.self) - 1).station_start_timestamp,
            !.sample_rate_hz =
                At(r2.self, GetNumPackets(r2.self) - 1).sample_rate_hz],
        None)

\* evaluate_and_validate_data
EvaluateAndValidateData(self) ==
    LET r1 == CalcTimesyncStats(self) IN
    IF r1.kind # "ok" THEN r1 ELSE
    LET r2 == EvaluateLatencies(r1.self) IN
    IF r2.kind # "ok" THEN r2 ELSE
    LET r3 == ValidateStartTimestamp(r2.self) IN
    IF r3.kind # "ok" THEN r3 ELSE
    LET s3 == IF r3.val = Bool(TRUE)
              THEN [r3.self EXCEPT !.station_start_timestamp =
                                      At(r3.self, 0).station_start_timestamp]
              ELSE r3.self
        r4 == ValidateSampleRate(s3)
    IN
    IF r4.kind # "ok" THEN r4 ELSE
    Ret(IF r4.val = Bool(TRUE)
        THEN [r4.self EXCEPT !.sample_rate_hz = At(r4.self, 0).sample_rate_hz]
        ELSE r4.self,
        None)

\* add_timesync_data
AddTimesyncDataTo(self, t) ==
    EvaluateAndValidateData(
        [self EXCEPT !.timesync_data = Append(self.timesync_data, t)])

\* TimeSyncAnalysis(station): the station's metadata s and its packets ps
NewTimeSyncAnalysis(s, ps) ==
    LET made == [i \in 1..Len(ps) |-> GetTimesyncData(ps[i], s)] IN
    IF \E i \in 1..Len(ps) : made[i].kind # "ok"
    THEN Exc("AttributeError", EmptyAnalysis)
    ELSE EvaluateAndValidateData(
             [EmptyAnalysis EXCEPT
                 !.station_start_timestamp = s.station_start_timestamp,
                 !.sample_rate_hz = s.audio_sample_rate_hz,
                 !.timesync_data = [i \in 1..Len(ps) |-> made[i].obj]])

\* self.timesync_data[self.best_latency_index].<field>, the body of
\* get_best_latency, get_best_offset, get_best_start_time and
\* get_best_packet_latency_index
GetBest(self, field) ==
    IF self.best_latency_index >= GetNumPackets(self)
    THEN Exc("IndexError", self)
    ELSE Ret(self, At(self, self.best_latency_index)[field])

\* get_latencies
GetLatencies(self) ==
    [i \in 1..GetNumPackets(self) |-> self.timesync_data[i].best_latency]

\* the test of get_bad_packets on one latency
IsBadLatency(x) == PyLe(x, Num(0)) \/ IsNaN(x)

\* get_bad_packets: comparing None with 0 raises TypeError
GetBadPackets(self) ==
    IF \E i \in 1..GetNumPackets(self) : IsNone(GetLatencies(self)[i])
    THEN Exc("TypeError", self)
    ELSE RetList(self, SelectSeq([i \in 1..GetNumPackets(self) |-> i - 1],
                         LAMBDA idx : IsBadLatency(GetLatencies(self)[idx + 1])))

\* validate_sensors
ValidateSensorsRateOnly(self) ==
    IF GetNumPackets(self) < 1 THEN FALSE
    ELSE IF GetNumPackets(self) > 1
    THEN ValidateSampleRate(self).val = Bool(TRUE)
    ELSE TRUE

ValidateSensors(self) ==
    IF GetNumPackets(self) < 1 THEN FALSE
    ELSE IF GetNumPackets(self) > 1
    THEN /\ ValidateSampleRate(self).val = Bool(TRUE)
         /\ ValidateStartTimestamp(self).val = Bool(TRUE)
    ELSE TRUE

\* list(range(lo, hi))
Range(lo, hi) == [i \in 1..(hi - lo) |-> lo + i - 1]

\* np.vectorize(f)(xs), ys being f applied to each element of xs:
\* vectorize refuses an input of size 0 with ValueError
Vectorize(ys) ==
    IF Len(ys) = 0 THEN Exc("ValueError", <<>>) ELSE RetList(<<>>, ys)

Reverse(q) == [i \in 1..Len(q) |-> q[Len(q) + 1 - i]]

\* the time array built around the best packet, from line 364 on; the
\* times are seconds, t_dt = 1.0 / sample_rate_hz
BuildTimeArray(self, num_samples, time_start_array) ==
    IF ~IsNum(self.sample_rate_hz) THEN Exc("TypeError", self)
    ELSE IF self.sample_rate_hz.v = 0 THEN Exc("ZeroDivisionError", self)
    ELSE
    LET n == IF IsNone(num_samples)
             THEN NumPointsFromSampleRate(self.sample_rate_hz.v)
             ELSE num_samples.v
        t_dt == MICROSECONDS_IN_SECOND \div self.sample_rate_hz.v
        num_files == Len(self.timesync_data)
        decoder_idx == self.best_latency_index
        samples_before == decoder_idx * n
        samples_after == (num_files - decoder_idx) * n - 1
        best_start_sec == time_start_array[decoder_idx + 1]
        range_before == Range(0, samples_before + 1)
        range_after == Range(1, samples_after + 1)
        timesec_before ==
            Vectorize([i \in 1..Len(range_before) |->
                          Sec(best_start_sec.v - range_before[i] * t_dt)])
        timesec_after ==
            Vectorize([i \in 1..Len(range_after) |->
                          Sec(best_start_sec.v + range_after[i] * t_dt)])
    IN  IF timesec_before.kind # "ok" THEN Exc(timesec_before.kind, self)
        ELSE IF timesec_after.kind # "ok" THEN Exc(timesec_after.kind, self)
        ELSE RetList(self, Reverse(timesec_before.list) \o timesec_after.list)

\* update_evenly_sampled_time_array(ts_analysis, num_samples, time_start_array)
UpdateEvenlySampledTimeArray(self, args) ==
    IF ~ValidateSensors(self) THEN Exc("AttributeError", self)
    ELSE IF ~args.given
            /\ \E i \in 1..Len(self.timesync_data) :
                   ~IsNum(self.timesync_data[i].packet_start_time)
    THEN Exc("TypeError", self)
    ELSE
    LET time_start_array ==
            IF args.given THEN args.time_start_array
            ELSE [i \in 1..Len(self.timesync_data) |->
                     MicrosToSeconds(self.timesync_data[i].packet_start_time)]
    IN  IF Len(self.timesync_data) # Len(time_start_array)
        THEN Exc("Exception", self)
        ELSE BuildTimeArray(self, args.num_samples, time_start_array)

\* the arguments of update_evenly_sampled_time_array; given = FALSE is
\* time_start_array = None
NoArgs == [num_samples |-> None, given |-> FALSE, time_start_array |-> <<>>]

NoCall == [op |-> "none", args |-> NoArgs, kind |-> "none", val |-> None,
           list |-> <<>>]

Called(op, args, r) ==
    [op |-> op, args |-> args, kind |-> r.kind, val |-> r.val, list |-> r.list]

\* no gap_filler call, no data_padder call and no DataWindow yet
NoDataWindow ==
    /\ filling = [stage |-> "none"]
    /\ padding = [stage |-> "none"]
    /\ window = [stage |-> "none"]

\* no RedVoxExceptions object and no metadata mapping yet
NoLibraryCall ==
    /\ exceptions = [stage |-> "none"]
    /\ mapping = [stage |-> "none"]

\* a TimeSyncAnalysis before its construction
InitAnalysisFields ==
    /\ timesync_data = <<>>
    /\ best_latency_index = 0
    /\ station_start_timestamp = None
    /\ sample_rate_hz = Num(0)
    /\ latency_stats = <<>>
    /\ offset_stats = <<>>
    /\ last = NoCall

InitAnalysis ==
    /\ NoDataWindow
    /\ NoLibraryCall
    /\ InitAnalysisFields

Init ==
    /\ data_pack = NoPacket
    /\ station = NoStation
    /\ tsd = [kind |-> "none", obj |-> TimeSyncData0]
    /\ InitAnalysis

----------------------------------------------------------------------------
(* Specification of the TimeSyncAnalysis: packets are added one at a time   *)
(* to an empty analysis, or the analysis is built from a station, and the   *)
(* public methods are called in any order                                   *)

\* a packet with one exchange whose best latency and offset are lat and off
PacketWith(start, lat, off) ==
    [server_timestamp |-> Num(100),
     packet_start_timestamp |-> Num(start),
     packet_end_timestamp |-> Num(start + 5),
     timesync |-> [present |-> TRUE, n |-> 1, best_latency_index |-> 0,
                   best_latency |-> lat, best_offset |-> Num(off),
                   mean_latency |-> lat, latency_std |-> Num(0),
                   mean_offset |-> Num(off), offset_std |-> Num(0)],
     packet_best_latency |-> None, packet_best_offset |-> None]

\* a packet without exchanges
PacketWithout(start) ==
    [PacketWith(start, None, 0) EXCEPT !.timesync = EmptyTimesync]

AnalysisPackets ==
    {PacketWithout(10), PacketWith(20, Num(2), 3), PacketWith(10, Num(-1), 0),
     PacketWith(10, NaN, 0), PacketWith(30, Num(5), -4)}

\* the packets of the usual station, and one packet of a station with
\* another sample rate and of one with another start timestamp
AnalysisInputs ==
    (AnalysisPackets \X {Station(1, 2, 1)})
    \cup ({PacketWith(20, Num(2), 3)} \X {Station(1, 4, 1), Station(1, 2, 2)})

\* the TimeSyncData objects handed to add_timesync_data
AnalysisTimeSyncData ==
    {TimeSyncData0} \cup {GetTimesyncData(i[1], i[2]).obj : i \in AnalysisInputs}

SetSelf(self) ==
    /\ timesync_data' = self.timesync_data
    /\ best_latency_index' = self.best_latency_index
    /\ station_start_timestamp' = self.station_start_timestamp
    /\ sample_rate_hz' = self.sample_rate_hz
    /\ latency_stats' = self.latency_stats
    /\ offset_stats' = self.offset_stats

\* a call of method op with outcome r: the object is left as the call left it
Call(op, r) ==
    /\ SetSelf(r.self)
    /\ last' = Called(op, NoArgs, r)
    /\ UNCHANGED <<tsdVars, dwVars, libVars>>

\* sequences over S of length 0..n
SeqsUpTo(S, n) == UNION {[1..m -> S] : m \in 0..n}

\* analysis = TimeSyncAnalysis(station)
Construct ==
    /\ last = NoCall
    /\ \E s \in Stations, ps \in SeqsUpTo(AnalysisPackets, MaxPackets) :
           Call("__init__", NewTimeSyncAnalysis(s, ps))

\* analysis.add_timesync_data(t)
AddTimesyncData ==
    /\ Len(timesync_data) < MaxPackets
    /\ \E t \in AnalysisTimeSyncData :
           Call("add_timesync_data", AddTimesyncDataTo(Self, t))

CallEvaluateLatencies == Call("evaluate_latencies", EvaluateLatencies(Self))

CallValidateStartTimestamp ==
    Call("validate_start_timestamp", ValidateStartTimestamp(Self))

CallValidateSampleRate == Call("validate_sample_rate", ValidateSampleRate(Self))

CallEvaluateAndValidateData ==
    Call("evaluate_and_validate_data", EvaluateAndValidateData(Self))

CallGetBestLatency == Call("get_best_latency", GetBest(Self, "best_latency"))

CallGetBestOffset == Call("get_best_offset", GetBest(Self, "best_offset"))

CallGetBestStartTime ==
    Call("get_best_start_time", GetBest(Self, "packet_start_time"))

CallGetBestPacketLatencyIndex ==
    Call("get_best_packet_latency_index", GetBest(Self, "best_latency_index"))

CallGetBadPackets == Call("get_bad_packets", GetBadPackets(Self))

Next ==
    \/ Construct
    \/ AddTimesyncData
    \/ CallEvaluateLatencies
    \/ CallValidateStartTimestamp
    \/ CallValidateSampleRate
    \/ CallEvaluateAndValidateData
    \/ CallGetBestLatency
    \/ CallGetBestOffset
    \/ CallGetBestStartTime
    \/ CallGetBestPacketLatencyIndex
    \/ CallGetBadPackets

Spec == Init /\ [][Next]_vars

\* best_latency of the packet at Python index i
LatencyAt(i) == timesync_data[i + 1].best_latency

PacketIndices == 0..(Len(timesync_data) - 1)

\* a latency that is a number >= 0
IsValidLatency(x) == IsNum(x) /\ x.v >= 0

C2_BestIsValid ==
    (\E i \in PacketIndices : IsValidLatency(LatencyAt(i))) =>
        /\ best_latency_index \in PacketIndices
        /\ IsValidLatency(LatencyAt(best_latency_index))

\* some packet's sample rate is not that of the first packet
SomeRateDiffers ==
    \E i \in PacketIndices :
        timesync_data[i + 1].sample_rate_hz # timesync_data[1].sample_rate_hz

NeedsPackets ==
    {"evaluate_latencies", "validate_start_timestamp", "validate_sample_rate",
     "evaluate_and_validate_data", "get_best_latency", "get_best_offset",
     "get_best_start_time", "get_best_packet_latency_index"}

\* C4 as stated: on an analysis without packets every operation that needs a
\* packet raises ValueError and nothing else
C4_EmptyRaisesValueError ==
    (Len(timesync_data) = 0 /\ last.op \in NeedsPackets) =>
        last.kind = "ValueError"

\* the indices of the packets whose best_latency is <= 0 or NaN, ascending
BadIndices ==
    SelectSeq([i \in 1..Len(timesync_data) |-> i - 1],
              LAMBDA idx : \/ IsNaN(LatencyAt(idx))
                           \/ IsNum(LatencyAt(idx)) /\ LatencyAt(idx).v <= 0)

\* C5 as stated: get_bad_packets returns the ascending indices of the
\* packets whose best_latency is <= 0 or NaN, zero-exchange packets included
\* in the analysis or not
C5_BadPackets ==
    last.op = "get_bad_packets" =>
        last.kind = "ok" /\ last.list = BadIndices

----------------------------------------------------------------------------
(* Specification of the time array correction: an analysis is filled as     *)
(* above and update_evenly_sampled_time_array is called on it               *)

\* a time_start_array of n start times, in seconds
StartArray(n) == [i \in 1..n |-> Sec(i * MICROSECONDS_IN_SECOND)]

\* num_samples left out, 1 or 3; time_start_array left out, or given with
\* one element too few, the right number, or one too many
UpdateArgs ==
    {[num_samples |-> ns, given |-> FALSE, time_start_array |-> <<>>] :
        ns \in {None, Num(1), Num(3)}}
    \cup {[num_samples |-> ns, given |-> TRUE, time_start_array |-> StartArray(n)] :
            ns \in {Num(1), Num(3)},
            n \in {m \in {Len(timesync_data) - 1, Len(timesync_data),
                          Len(timesync_data) + 1} : m >= 0}}

CallUpdateEvenlySampledTimeArray ==
    \E args \in UpdateArgs :
        LET r == UpdateEvenlySampledTimeArray(Self, args) IN
        /\ SetSelf(r.self)
        /\ last' = Called("update_evenly_sampled_time_array", args, r)
        /\ UNCHANGED <<tsdVars, dwVars, libVars>>

NextArray ==
    \/ Construct
    \/ AddTimesyncData
    \/ CallUpdateEvenlySampledTimeArray

SpecArray == Init /\ [][NextArray]_vars

\* all packets report the sample rate and the station start timestamp of
\* the first
AllAgree ==
    \A i \in 1..Len(timesync_data) :
        /\ timesync_data[i].sample_rate_hz = timesync_data[1].sample_rate_hz
        /\ timesync_data[i].station_start_timestamp
               = timesync_data[1].station_start_timestamp

LengthFits ==
    last.args.given => Len(last.args.time_start_array) = Len(timesync_data)

\* C9: update_evenly_sampled_time_array returns an array only on an
\* analysis with a packet, whose packets agree on sample rate and station
\* start timestamp, and with a time_start_array, if one is given, of as many
\* elements as there are packets; otherwise it raises, and an inconsistent
\* or empty analysis is reported (AttributeError) before a wrong length is
C9_ArrayOnlyWhenValid ==
    last.op = "update_evenly_sampled_time_array" =>
        /\ last.kind = "ok" =>
               Len(timesync_data) >= 1 /\ AllAgree /\ LengthFits
        /\ last.kind # "ok" => last.list = <<>>
        /\ ~(Len(timesync_data) >= 1 /\ AllAgree) => last.kind = "AttributeError"
        /\ (Len(timesync_data) >= 1 /\ AllAgree /\ ~LengthFits) =>
               last.kind \in {"AttributeError", "Exception"}

\* inconsistent packets and a time_start_array of the wrong length: the
\* inconsistency is what is reported
C9_Witness ==
    /\ last.op = "update_evenly_sampled_time_array"
    /\ Len(timesync_data) = 2
    /\ ~AllAgree
    /\ ~LengthFits
    /\ last.kind = "AttributeError"

\* an array came back for a given time_start_array of the right length
C9_WitnessArray ==
    /\ last.op = "update_evenly_sampled_time_array"
    /\ last.kind = "ok"
    /\ last.args.given
    /\ Len(timesync_data) = 3
    /\ Len(last.list) = 9

\* the number of samples per packet the call used
NumSamplesUsed ==
    IF IsNone(last.args.num_samples)
    THEN NumPointsFromSampleRate(sample_rate_hz.v)
    ELSE last.args.num_samples.v

----------------------------------------------------------------------------
(* Specification of the TimeSyncData construction: the inputs are drawn in  *)
(* the initial state and the constructor runs once on them                  *)

InitTSD ==
    /\ \/ data_pack \in Packets /\ station \in Stations
       \/ data_pack = NoPacket /\ station = NoStation
    /\ tsd = [kind |-> "none", obj |-> TimeSyncData0]
    /\ InitAnalysis

\* TimeSyncData(data_pack, station)
NewTimeSyncData ==
    /\ tsd.kind = "none"
    /\ data_pack # NoPacket
    /\ tsd' = GetTimesyncData(data_pack, station)
    /\ UNCHANGED <<data_pack, station, tsaVars, last, dwVars, libVars>>

\* TimeSyncData()
NewDefaultTimeSyncData ==
    /\ tsd.kind = "none"
    /\ data_pack = NoPacket
    /\ tsd' = Ok(TimeSyncData0)
    /\ UNCHANGED <<data_pack, station, tsaVars, last, dwVars, libVars>>

NextTSD == NewTimeSyncData \/ NewDefaultTimeSyncData

SpecTSD == InitTSD /\ [][NextTSD]_vars

\* the packet given to the constructor carried zero exchanges
ZeroExchanges ==
    /\ tsd.kind = "ok"
    /\ data_pack # NoPacket
    /\ (~data_pack.timesync.present \/ data_pack.timesync.n = 0)

\* C6 as stated: zero exchanges give best_latency None, best_offset 0 and
\* NaN for mean and standard deviation of both latency and offset
C6_AsStated ==
    ZeroExchanges =>
        /\ tsd.obj.best_latency = None
        /\ tsd.obj.best_offset = Num(0)
        /\ tsd.obj.mean_latency = NaN /\ tsd.obj.latency_std = NaN
        /\ tsd.obj.mean_offset = NaN /\ tsd.obj.offset_std = NaN

\* C6 amended: zero exchanges give best_latency None, best_offset 0, NaN for
\* mean and standard deviation of the latency, and 0 for mean and standard
\* deviation of the offset, whatever else the packet carries
C6_ZeroExchangeDefaults ==
    ZeroExchanges =>
        /\ tsd.obj.best_latency = None
        /\ tsd.obj.best_offset = Num(0)
        /\ tsd.obj.mean_latency = NaN /\ tsd.obj.latency_std = NaN
        /\ tsd.obj.mean_offset = Num(0) /\ tsd.obj.offset_std = Num(0)

\* a zero-exchange packet that carries an explicit latency and offset
C6_Witness ==
    /\ ZeroExchanges
    /\ data_pack.packet_best_latency = Num(7)
    /\ data_pack.packet_best_offset = Num(9)
    /\ data_pack.timesync.present
    /\ tsd.obj.best_latency = None

\* C7 as stated: an explicit non-null, non-zero packet_best_latency is the
\* object's best_latency and an explicit non-null, non-zero
\* packet_best_offset is its best_offset, each field on its own and for any
\* number of exchanges; a construction that raises yields neither
C7_ExplicitPreferred ==
    (data_pack # NoPacket /\ tsd.kind # "none") =>
        /\ Truthy(data_pack.packet_best_latency) =>
               tsd.kind = "ok" /\ tsd.obj.best_latency = data_pack.packet_best_latency
        /\ Truthy(data_pack.packet_best_offset) =>
               tsd.kind = "ok" /\ tsd.obj.best_offset = data_pack.packet_best_offset

\* C8: a constructed TimeSyncData has acquire_travel_time =
\* server_acquisition_time - (packet_end_time + best_offset), with the
\* best_offset the object finally stores
C8_AcquireTravelTime ==
    (tsd.kind = "ok" /\ data_pack # NoPacket) =>
        /\ tsd.obj.server_acquisition_time = data_pack.server_timestamp
        /\ tsd.obj.packet_end_time = data_pack.packet_end_timestamp
        /\ tsd.obj.acquire_travel_time =
               Num(data_pack.server_timestamp.v
                   - (data_pack.packet_end_timestamp.v + tsd.obj.best_offset.v))

\* the offset that enters the travel time is a computed, non-zero one
C8_Witness ==
    /\ tsd.kind = "ok"
    /\ data_pack # NoPacket
    /\ data_pack.timesync.n > 0
    /\ IsNone(data_pack.packet_best_latency)
    /\ tsd.obj.best_offset = Num(3)
    /\ tsd.obj.acquire_travel_time = Num(100 - (30 + 3))

----------------------------------------------------------------------------
(* Data frames of a sensor (src/redvox/common/data_window.py).  A data_df   *)
(* is a sequence of rows in index order; a row has its timestamp in         *)
(* microseconds and one data column, a number or NaN.  Durations in seconds *)
(* are Sec(n) = n / 10^6 s, so that seconds and microseconds stay apart.    *)

Row(t, d) == [timestamps |-> t, data |-> d]

\* the column data_df["timestamps"] in index order
TimestampsOf(df) == [i \in 1..Len(df) |-> df[i].timestamps]

\* sort_values leaving the rows in index order
SortValuesKeepingOrder(df) == df

\* df.sort_values("timestamps"): rows in ascending timestamp order
SortValues(df) == SortSeq(df, LAMBDA a, b : a.timestamps < b.timestamps)

\* dtu.microseconds_to_seconds of a difference of microsecond timestamps
MicrosecondsToSeconds(us) == Sec(us)

\* dtu.seconds_to_microseconds(t * sample_interval_s)
SecondsTimesToMicroseconds(t, sample_interval_s) == t * sample_interval_s.v

\* int(seconds / sample_interval_s): the quotient truncated towards zero
IntDiv(seconds, sample_interval_s) ==
    IF seconds.v >= 0
    THEN seconds.v \div sample_interval_s.v
    ELSE -((-seconds.v) \div sample_interval_s.v)

DEFAULT_GAP_TIME_S == Sec(250000)

\* the number of points from which gap_filler splits its input in halves
SplitThreshold == 1000

\* create_empty_df filling the data column with 0
CreateEmptyDfZeros(start_timestamp, sample_interval_s, num_samples_to_add, add_to_start) ==
    LET step == IF add_to_start THEN Sec(-sample_interval_s.v)
                ELSE sample_interval_s
    IN  RetList(<<>>, [t \in 1..num_samples_to_add |->
            Row(start_timestamp + SecondsTimesToMicroseconds(t, step), Num(0))])

\* create_empty_df(start_timestamp, sample_interval_s, columns,
\* num_samples_to_add, add_to_start): rows of NaN at start_timestamp plus
\* (or minus) 1..num_samples_to_add sample intervals; np.vectorize raises
\* ValueError when there is no sample to add
CreateEmptyDf(start_timestamp, sample_interval_s, num_samples_to_add, add_to_start) ==
    LET step == IF add_to_start THEN Sec(-sample_interval_s.v)
                ELSE sample_interval_s
        new_timestamps ==
            Vectorize([t \in 1..num_samples_to_add |->
                          start_timestamp + SecondsTimesToMicroseconds(t, step)])
    IN  IF new_timestamps.kind # "ok" THEN new_timestamps
        ELSE RetList(<<>>, [i \in 1..num_samples_to_add |->
                               Row(new_timestamps.list[i], NaN)])

\* data_padder with its padding at the start beginning one interval late
DataPadderLateStart(expected_start, expected_end, data_df, sample_interval_s) ==
    LET data_time_stamps == TimestampsOf(SortValues(data_df))
        first_data_timestamp == data_time_stamps[1]
        last_data_timestamp == data_time_stamps[Len(data_time_stamps)]
        front ==
            IF expected_start < first_data_timestamp
            THEN CreateEmptyDf(expected_start, sample_interval_s,
                     IntDiv(MicrosecondsToSeconds(first_data_timestamp - expected_start),
                            sample_interval_s) + 1, FALSE).list
            ELSE <<>>
        back ==
            IF expected_end > last_data_timestamp
            THEN CreateEmptyDf(
                     expected_end + SecondsTimesToMicroseconds(1, sample_interval_s),
                     sample_interval_s,
                     IntDiv(MicrosecondsToSeconds(expected_end - last_data_timestamp),
                            sample_interval_s) + 1, TRUE).list
            ELSE <<>>
    IN  SortValues(data_df \o front \o back)

\* data_padder(expected_start, expected_end, data_df, sample_interval_s):
\* NaN rows from expected_start up to the first timestamp and from
\* expected_end down to the last one are appended, and the rows are sorted
DataPadder(expected_start, expected_end, data_df, sample_interval_s) ==
    LET data_time_stamps == TimestampsOf(SortValues(data_df))
        first_data_timestamp == data_time_stamps[1]
        last_data_timestamp == data_time_stamps[Len(data_time_stamps)]
        front ==
            IF expected_start < first_data_timestamp
            THEN CreateEmptyDf(
                     expected_start - SecondsTimesToMicroseconds(1, sample_interval_s),
                     sample_interval_s,
                     IntDiv(MicrosecondsToSeconds(first_data_timestamp - expected_start),
                            sample_interval_s) + 1, FALSE).list
            ELSE <<>>
        back ==
            IF expected_end > last_data_timestamp
            THEN CreateEmptyDf(
                     expected_end + SecondsTimesToMicroseconds(1, sample_interval_s),
                     sample_interval_s,
                     IntDiv(MicrosecondsToSeconds(expected_end - last_data_timestamp),
                            sample_interval_s) + 1, TRUE).list
            ELSE <<>>
    IN  SortValues(data_df \o front \o back)

\* lines 236-244 of gap_filler: for each pair of consecutive timestamps
\* further apart than gap_duration_s, int(time_diff / sample_interval_s) - 1
\* NaN rows are appended after the first of the two
FillGaps(data_df, data_time_stamps, sample_interval_s, gap_duration_s) ==
    LET num_points == Len(data_time_stamps)
        time_diff(index) ==
            MicrosecondsToSeconds(data_time_stamps[index + 1]
                                  - data_time_stamps[index])
        num_new_samples(index) == IntDiv(time_diff(index), sample_interval_s) - 1
        added(index) ==
            IF time_diff(index).v > gap_duration_s.v /\ num_new_samples(index) > 0
            THEN num_new_samples(index) ELSE 0
        counts == {added(index) : index \in 1..(num_points - 1)}
        most == IF counts = {} THEN 0
                ELSE CHOOSE m \in counts : \A c \in counts : c <= m
        \* the appended rows in the order of the loop: by index, then by sample
        slots == [k \in 1..((num_points - 1) * most) |->
                     [index |-> ((k - 1) \div most) + 1, t |-> ((k - 1) % most) + 1]]
        used == SelectSeq(slots, LAMBDA sl : sl.t <= added(sl.index))
    IN  data_df \o
        [k \in 1..Len(used) |->
            CreateEmptyDf(data_time_stamps[used[k].index], sample_interval_s,
                          added(used[k].index), FALSE).list[used[k].t]]

RECURSIVE GapFiller(_, _, _)
\* gap_filler(data_df, sample_interval_s, gap_duration_s)
GapFiller(data_df, sample_interval_s, gap_duration_s) ==
    LET data_time_stamps == TimestampsOf(SortValues(data_df))
        num_points == Len(data_time_stamps)
        data_duration_s ==
            MicrosecondsToSeconds(data_time_stamps[num_points] - data_time_stamps[1])
        expected_num_points == IntDiv(data_duration_s, sample_interval_s) + 1
        gap == IF gap_duration_s.v < sample_interval_s.v
               THEN sample_interval_s ELSE gap_duration_s
        half_samples == num_points \div 2
        result_df ==
            IF num_points >= expected_num_points THEN data_df
            ELSE IF num_points < SplitThreshold
            THEN FillGaps(data_df, data_time_stamps, sample_interval_s, gap)
            ELSE GapFiller(SubSeq(data_df, 1, half_samples),
                           sample_interval_s, gap)
                 \o GapFiller(SubSeq(data_df, half_samples + 1, num_points),
                              sample_interval_s, gap)
    IN  SortValues(result_df)

----------------------------------------------------------------------------
(* Specification of data_padder: the arguments are drawn in the initial     *)
(* state and the function is called once on them                            *)

\* the data frame with timestamps ts in index order; each row carries its
\* index as data
FrameOf(ts) == [i \in 1..Len(ts) |-> Row(ts[i], Num(i))]

\* the non-empty sequences of at most MaxRows distinct timestamps, in
\* ascending or in descending order
TimestampSeqs ==
    {ts \in SeqsUpTo(0..MaxTime, MaxRows) :
        /\ Len(ts) > 0
        /\ \/ \A i \in 1..(Len(ts) - 1) : ts[i] < ts[i + 1]
           \/ \A i \in 1..(Len(ts) - 1) : ts[i] > ts[i + 1]}

Frames == {FrameOf(ts) : ts \in TimestampSeqs}

SampleIntervals == {Sec(1), Sec(2), Sec(3)}

ExpectedTimes == (0 - 2)..(MaxTime + 2)

InitPad ==
    /\ data_pack = NoPacket
    /\ station = NoStation
    /\ tsd = [kind |-> "none", obj |-> TimeSyncData0]
    /\ InitAnalysisFields
    /\ NoLibraryCall
    /\ filling = [stage |-> "none"]
    /\ window = [stage |-> "none"]
    /\ \E df \in Frames, i \in SampleIntervals,
          es \in ExpectedTimes, ee \in ExpectedTimes :
          padding = [stage |-> "input", expected_start |-> es,
                     expected_end |-> ee, data_df |-> df,
                     sample_interval_s |-> i, result_df |-> <<>>]

\* result_df = data_padder(expected_start, expected_end, data_df,
\*                         sample_interval_s)
CallDataPadder ==
    /\ padding.stage = "input"
    /\ padding' = [padding EXCEPT
           !.stage = "done",
           !.result_df = DataPadder(padding.expected_start, padding.expected_end,
                                    padding.data_df, padding.sample_interval_s)]
    /\ UNCHANGED <<tsdVars, tsaVars, last, filling, window, libVars>>

NextPad == CallDataPadder

SpecPad == InitPad /\ [][NextPad]_vars

\* the smallest and the largest timestamp of a data frame
FirstTimestamp(df) == TimestampsOf(SortValues(df))[1]

LastTimestamp(df) == TimestampsOf(SortValues(df))[Len(df)]

\* the rows of df whose timestamp lies in lo..hi
RowsWithin(df, lo, hi) ==
    SelectSeq(df, LAMBDA r : lo <= r.timestamps /\ r.timestamps <= hi)

\* C16: padding a series and keeping only the rows whose timestamp lies in
\* the range of the original series gives the original number of rows
C16_RoundTrip ==
    padding.stage = "done" =>
        Len(RowsWithin(padding.result_df, FirstTimestamp(padding.data_df),
                       LastTimestamp(padding.data_df)))
            = Len(padding.data_df)

\* the timestamps of the padded series all lie in the expected range
AllWithinExpected ==
    \A i \in 1..Len(padding.data_df) :
        /\ padding.expected_start <= padding.data_df[i].timestamps
        /\ padding.data_df[i].timestamps <= padding.expected_end

\* C17: for a series inside [expected_start, expected_end] the padded
\* series begins at expected_start and ends at expected_end, and when the
\* series already begins and ends there no row is added
C17_PaddedToExpected ==
    (padding.stage = "done" /\ AllWithinExpected) =>
        /\ FirstTimestamp(padding.result_df) = padding.expected_start
        /\ LastTimestamp(padding.result_df) = padding.expected_end
        /\ (/\ padding.expected_start >= FirstTimestamp(padding.data_df)
            /\ padding.expected_end <= LastTimestamp(padding.data_df))
               => padding.result_df = SortValues(padding.data_df)

\* a series padded at both ends, by more than one row at each
C17_Witness ==
    /\ padding.stage = "done"
    /\ AllWithinExpected
    /\ padding.expected_start < FirstTimestamp(padding.data_df) - 2
    /\ padding.expected_end > LastTimestamp(padding.data_df) + 2
    /\ Len(padding.result_df) >= Len(padding.data_df) + 4
    /\ FirstTimestamp(padding.result_df) = padding.expected_start

----------------------------------------------------------------------------
(* Specification of gap_filler: the arguments are drawn in the initial      *)
(* state, the function is called on them and once more on its own result.  *)
(* Besides the short frames there are long ones, of SplitThreshold rows and *)
(* more, which gap_filler splits in halves.                                 *)

\* the rows missing at each gap of a long frame
GapRows == 3

\* a frame of n rows one microsecond apart, with GapRows samples missing
\* after each row whose index is in gaps
LongFrame(n, gaps) ==
    [i \in 1..n |-> Row(i + GapRows * Cardinality({g \in gaps : g < i}), Num(i))]

\* gaps inside the first half, between the halves and inside the second half
LongFrames ==
    {LongFrame(n, gaps) :
        n \in {SplitThreshold, SplitThreshold + 1, 2 * SplitThreshold},
        gaps \in SUBSET {SplitThreshold \div 4, SplitThreshold \div 2,
                         (3 * SplitThreshold) \div 4}}

GapDurations == {Sec(1), Sec(2), Sec(4)}

\* a call gap_filler(df, i, g), or gap_filler(df, i) when given is FALSE
FillerCall(df, i, given, g) ==
    [stage |-> "input", data_df |-> df, sample_interval_s |-> i,
     gap_given |-> given,
     gap_duration_s |-> IF given THEN g ELSE DEFAULT_GAP_TIME_S,
     result_df |-> <<>>, again_df |-> <<>>]

InitFill ==
    /\ data_pack = NoPacket
    /\ station = NoStation
    /\ tsd = [kind |-> "none", obj |-> TimeSyncData0]
    /\ InitAnalysisFields
    /\ NoLibraryCall
    /\ padding = [stage |-> "none"]
    /\ window = [stage |-> "none"]
    /\ \/ \E df \in Frames, i \in SampleIntervals, g \in GapDurations,
             given \in BOOLEAN :
             /\ (~given => g = Sec(1))
             /\ filling = FillerCall(df, i, given, g)
       \/ \E df \in LongFrames : filling = FillerCall(df, Sec(1), TRUE, Sec(1))

\* result_df = gap_filler(data_df, sample_interval_s, gap_duration_s)
CallGapFiller ==
    /\ filling.stage = "input"
    /\ filling' = [filling EXCEPT
           !.stage = "once",
           !.result_df = GapFiller(filling.data_df, filling.sample_interval_s,
                                   filling.gap_duration_s)]
    /\ UNCHANGED <<tsdVars, tsaVars, last, padding, window, libVars>>

\* again_df = gap_filler(result_df, sample_interval_s, gap_duration_s)
CallGapFillerAgain ==
    /\ filling.stage = "once"
    /\ filling' = [filling EXCEPT
           !.stage = "twice",
           !.again_df = GapFiller(filling.result_df, filling.sample_interval_s,
                                  filling.gap_duration_s)]
    /\ UNCHANGED <<tsdVars, tsaVars, last, padding, window, libVars>>

NextFill == CallGapFiller \/ CallGapFillerAgain

SpecFill == InitFill /\ [][NextFill]_vars

\* the rows of df are in ascending order and exactly one interval apart
EvenlySampled(df, sample_interval_s) ==
    \A i \in 1..(Len(df) - 1) :
        df[i + 1].timestamps - df[i].timestamps = sample_interval_s.v

\* C15: gap_filler returns a gap-free, evenly sampled series as it is, and
\* applying gap_filler to its own result, with the same interval and
\* threshold, changes nothing
C15_Idempotent ==
    /\ (/\ filling.stage \in {"once", "twice"}
        /\ EvenlySampled(filling.data_df, filling.sample_interval_s))
           => filling.result_df = filling.data_df
    /\ filling.stage = "twice" => filling.again_df = filling.result_df

\* max(gap_duration_s, sample_interval_s) in microseconds
ThresholdOf(gap_duration_s, sample_interval_s) ==
    IF gap_duration_s.v < sample_interval_s.v
    THEN sample_interval_s.v ELSE gap_duration_s.v

\* C20: no two consecutive timestamps of the result of gap_filler differ by
\* more than max(gap_duration_s, sample_interval_s)
C20_NoGapLeft ==
    filling.stage \in {"once", "twice"} =>
        \A i \in 1..(Len(filling.result_df) - 1) :
            filling.result_df[i + 1].timestamps - filling.result_df[i].timestamps
                <= ThresholdOf(filling.gap_duration_s, filling.sample_interval_s)

----------------------------------------------------------------------------
(* DataWindow.read_data.  A station is a record of its id, its sensors in   *)
(* the order of station_data, its packets and its metadata; a sensor has a  *)
(* type, a data_df and a sample_interval_s (Sec(n), or NaN when unknown).   *)
(* A datetime is kept as Num(its epoch microseconds).  The stations of the  *)
(* model carry no location sensor, so lines 131-135 change nothing here.    *)

\* int(seconds): a duration truncated to whole seconds
IntSeconds(seconds) == IntDiv(seconds, Sec(MICROSECONDS_IN_SECOND))

\* _pad_start_datetime_s: start_datetime in epoch seconds minus the padding
PadStartDatetimeS(self) == Sec(self.start_datetime.v - self.start_padding_s.v)

\* _pad_end_datetime_s: end_datetime in epoch seconds plus the padding
PadEndDatetimeS(self) == Sec(self.end_datetime.v + self.end_padding_s.v)

\* read_all_in_dir(input_directory, start_time, end_time, station_ids,
\* structured_layout): the stations of the directory whose id is asked for,
\* all of them when station_ids is None or empty
ReadAllInDir(directory, ids_given, station_ids) ==
    SelectSeq(directory,
              LAMBDA st : ~ids_given \/ station_ids = {} \/ st.id \in station_ids)

\* ReadResult.check_for_id
CheckForId(stations, id) == \E i \in 1..Len(stations) : stations[i].id = id

\* ReadResult.pop_station
PopStation(stations, id) == SelectSeq(stations, LAMBDA st : st.id # id)

\* Station.has_audio_data
HasAudioData(st) == \E i \in 1..Len(st.sensors) : st.sensors[i].type = "audio"

\* Station.audio_sensor
AudioSensor(st) ==
    st.sensors[CHOOSE i \in 1..Len(st.sensors) : st.sensors[i].type = "audio"]

\* Station.update_timestamps: every timestamp is moved by the best offset
UpdateTimestamps(st) ==
    [st EXCEPT
        !.corrected = TRUE,
        !.sensors = [i \in 1..Len(st.sensors) |->
            [st.sensors[i] EXCEPT !.data_df =
                [j \in 1..Len(st.sensors[i].data_df) |->
                    Row(st.sensors[i].data_df[j].timestamps + st.best_offset,
                        st.sensors[i].data_df[j].data)]]],
        !.packet_data = [i \in 1..Len(st.packet_data) |->
            [data_start_timestamp |->
                 st.packet_data[i].data_start_timestamp + st.best_offset,
             data_end_timestamp |->
                 st.packet_data[i].data_end_timestamp + st.best_offset]]]

\* Station.packet_gap_detector(gap_time_s)
PacketGapDetector(st, gap_time_s) == [st EXCEPT !.packet_gap_time_s = gap_time_s]

\* SensorData.is_sample_interval_invalid
IsSampleIntervalInvalid(sensor) ==
    IsNaN(sensor.sample_interval_s) \/ sensor.sample_interval_s.v <= 0

\* lines 155-164: the sensor keeps its rows inside the window and, when its
\* sample interval is valid, is gap-filled and padded to the window
WindowSensor(sensor, start_datetime, end_datetime) ==
    LET truncated == [sensor EXCEPT !.data_df =
                         RowsWithin(sensor.data_df, start_datetime, end_datetime)]
    IN  IF IsSampleIntervalInvalid(truncated) THEN truncated
        ELSE [truncated EXCEPT !.data_df =
                 DataPadder(start_datetime, end_datetime,
                            GapFiller(truncated.data_df, sensor.sample_interval_s,
                                      DEFAULT_GAP_TIME_S),
                            sensor.sample_interval_s)]

RECURSIVE SensorLoop(_, _, _, _, _)
\* the loop over station.station_data of lines 141-164, from the i-th sensor
\* on: a sensor without rows ends the loop, one without rows in the window
\* is left as it is, and marks the station for removal if it is the audio
SensorLoop(sensors, i, start_datetime, end_datetime, pop) ==
    IF i > Len(sensors) THEN [sensors |-> sensors, pop |-> pop]
    ELSE IF Len(sensors[i].data_df) < 1 THEN [sensors |-> sensors, pop |-> pop]
    ELSE IF Len(RowsWithin(sensors[i].data_df, start_datetime, end_datetime)) < 1
    THEN SensorLoop(sensors, i + 1, start_datetime, end_datetime,
                    pop \/ sensors[i].type = "audio")
    ELSE SensorLoop([sensors EXCEPT ![i] =
                        WindowSensor(sensors[i], start_datetime, end_datetime)],
                    i + 1, start_datetime, end_datetime, pop)

\* lines 122-169: one station with audio data goes through read_data
ProcessStation(self, station0) ==
    LET corrected == IF self.apply_correction THEN UpdateTimestamps(station0)
                     ELSE station0
        st == PacketGapDetector(corrected, self.gap_time_s)
        start_datetime ==
            IF ~IsNone(self.start_datetime) THEN self.start_datetime.v
            ELSE FirstTimestamp(AudioSensor(st).data_df)
        end_datetime ==
            IF ~IsNone(self.end_datetime) THEN self.end_datetime.v
            ELSE LastTimestamp(AudioSensor(st).data_df)
        packets == SelectSeq(st.packet_data,
                       LAMBDA pk : /\ pk.data_end_timestamp > start_datetime
                                   /\ pk.data_start_timestamp < end_datetime)
        looped == SensorLoop(st.sensors, 1, start_datetime, end_datetime, FALSE)
        after == [st EXCEPT !.packet_data = packets, !.sensors = looped.sensors]
    IN  [station |->
             [after EXCEPT
                 !.station_first_data_timestamp =
                     Num(AudioSensor(after).data_df[1].timestamps),
                 !.episode_start_timestamp_s = Num(start_datetime),
                 !.episode_end_timestamp_s = Num(end_datetime)],
         pop |-> looped.pop]

RECURSIVE StationLoop(_, _, _, _)
\* the loop over self.stations.get_all_stations() of lines 114-169, from the
\* i-th station on: a station without audio data is marked for removal and
\* ends the loop
StationLoop(self, stations, i, ids_to_pop) ==
    IF i > Len(stations) THEN [stations |-> stations, ids_to_pop |-> ids_to_pop]
    ELSE IF ~HasAudioData(stations[i])
    THEN [stations |-> stations,
          ids_to_pop |-> Append(ids_to_pop, stations[i].id)]
    ELSE LET done == ProcessStation(self, stations[i])
         IN  StationLoop(self, [stations EXCEPT ![i] = done.station], i + 1,
                         IF done.pop THEN Append(ids_to_pop, stations[i].id)
                         ELSE ids_to_pop)

RECURSIVE PopStations(_, _)
\* lines 171-172
PopStations(stations, ids_to_pop) ==
    IF ids_to_pop = <<>> THEN stations
    ELSE PopStations(PopStation(stations, Head(ids_to_pop)), Tail(ids_to_pop))

\* read_data: the outcome, the arguments given to read_all_in_dir, the ids
\* warned about and self.stations when read_data ends; iterating over a
\* station_ids that is None raises TypeError after the stations were read
ReadData(self, directory) ==
    LET start_time == IF ~IsNone(self.start_datetime)
                      THEN Num(IntSeconds(PadStartDatetimeS(self))) ELSE None
        end_time == IF ~IsNone(self.end_datetime)
                    THEN Num(IntSeconds(PadEndDatetimeS(self))) ELSE None
        read == ReadAllInDir(directory, self.ids_given, self.station_ids)
        looped == StationLoop(self, read, 1, <<>>)
    IN  IF ~self.ids_given
        THEN [kind |-> "TypeError", start_time |-> start_time,
              end_time |-> end_time, warned |-> {}, stations |-> read]
        ELSE [kind |-> "ok", start_time |-> start_time, end_time |-> end_time,
              warned |-> {id \in self.station_ids : ~CheckForId(read, id)},
              stations |-> PopStations(looped.stations, looped.ids_to_pop)]

----------------------------------------------------------------------------
(* Specification of the DataWindow: its fields and the content of the input *)
(* directory are drawn in the initial state, and the construction reads and *)
(* windows the stations; read holds how read_data ended and self.stations   *)
(* then.  Times are multiples of a quarter of a second.                     *)

Tick == DEFAULT_GAP_TIME_S.v

Ticks(ts) == [i \in 1..Len(ts) |-> ts[i] * Tick]

Sensor(type, ts, sample_interval_s) ==
    [type |-> type, data_df |-> FrameOf(Ticks(ts)),
     sample_interval_s |-> sample_interval_s]

\* a station as read_all_in_dir returns it: three packets of one second
\* each, nothing corrected or windowed yet
LoadedStation(sensors, best_offset) ==
    [id |-> 0, sensors |-> sensors, best_offset |-> best_offset,
     packet_data |-> [i \in 1..3 |->
         [data_start_timestamp |-> (i - 1) * 4 * Tick,
          data_end_timestamp |-> i * 4 * Tick]],
     corrected |-> FALSE, packet_gap_time_s |-> None,
     station_first_data_timestamp |-> None,
     episode_start_timestamp_s |-> None, episode_end_timestamp_s |-> None]

\* no audio sensor at all
StationNoAudio == LoadedStation(<<Sensor("pressure", <<3, 4>>, Sec(Tick))>>, 0)

\* audio inside the window, a slower pressure sensor around it
StationAudio ==
    LoadedStation(<<Sensor("audio", <<3, 4, 5>>, Sec(Tick)),
                    Sensor("pressure", <<1, 5, 9>>, Sec(2 * Tick))>>, 0)

\* audio with two samples missing between 3 and 6
StationAudioGap == LoadedStation(<<Sensor("audio", <<2, 3, 6>>, Sec(Tick))>>, 0)

\* audio after the window, inside it once corrected by the best offset
StationAudioLate ==
    LoadedStation(<<Sensor("audio", <<8, 9>>, Sec(Tick))>>, (0 - 4) * Tick)

\* a sensor without any row comes before the audio sensor
StationEmptySensor ==
    LoadedStation(<<Sensor("pressure", <<>>, Sec(Tick)),
                    Sensor("audio", <<1, 4, 7>>, Sec(Tick))>>, 0)

\* a sensor with all its rows after the window, and of unknown sample
\* interval, comes before the audio sensor
StationOutsideSensor ==
    LoadedStation(<<Sensor("pressure", <<8, 9>>, NaN),
                    Sensor("audio", <<1, 4, 7>>, Sec(Tick))>>, 0)

StationShapes ==
    {StationNoAudio, StationAudio, StationAudioGap, StationAudioLate,
     StationEmptySensor, StationOutsideSensor}

\* the directories: up to MaxStations stations, the i-th with id i
Directories ==
    {[i \in 1..Len(d) |-> [d[i] EXCEPT !.id = i]] :
        d \in SeqsUpTo(StationShapes, MaxStations)}

\* the window asked for, when one is: from 0.5 s to 1.5 s
WindowStart == 2 * Tick

WindowEnd == 6 * Tick

DEFAULT_START_PADDING_S == Sec(120 * MICROSECONDS_IN_SECOND)

DEFAULT_END_PADDING_S == Sec(120 * MICROSECONDS_IN_SECOND)

\* DataWindow(input_directory, station_ids, start_datetime, end_datetime,
\* start_padding_s, end_padding_s, gap_time_s, apply_correction)
DataWindows ==
    [ids_given : BOOLEAN,
     station_ids : {{}, {1}, 1..MaxStations},
     start_datetime : {None, Num(WindowStart)},
     end_datetime : {None, Num(WindowEnd)},
     start_padding_s : {Sec(0), DEFAULT_START_PADDING_S},
     end_padding_s : {DEFAULT_END_PADDING_S},
     gap_time_s : {DEFAULT_GAP_TIME_S, Sec(4 * Tick)},
     apply_correction : BOOLEAN]

\* read_data has not been called
NotRead ==
    [kind |-> "none", start_time |-> None, end_time |-> None, warned |-> {},
     stations |-> <<>>]

InitWindow ==
    /\ data_pack = NoPacket
    /\ station = NoStation
    /\ tsd = [kind |-> "none", obj |-> TimeSyncData0]
    /\ InitAnalysisFields
    /\ NoLibraryCall
    /\ filling = [stage |-> "none"]
    /\ padding = [stage |-> "none"]
    /\ \E self \in DataWindows, d \in Directories :
          /\ (~self.ids_given => self.station_ids = {})
          /\ window = [stage |-> "input", self |-> self, directory |-> d,
                       read |-> NotRead]

\* DataWindow(...): __post_init__ calls read_data, stations being None
NewDataWindow ==
    /\ window.stage = "input"
    /\ window' = [window EXCEPT
           !.stage = "done",
           !.read = ReadData(window.self, window.directory)]
    /\ UNCHANGED <<tsdVars, tsaVars, last, filling, padding, libVars>>

NextWindow == NewDataWindow

SpecWindow == InitWindow /\ [][NextWindow]_vars

\* read_data ran to its end
WindowRead == window.stage = "done" /\ window.read.kind = "ok"

\* the stations of self.stations, as a set
Retained == {window.read.stations[i] : i \in 1..Len(window.read.stations)}

\* the sensors of a station, as a set
SensorsOf(st) == {st.sensors[i] : i \in 1..Len(st.sensors)}

\* the row lies inside the window asked for; a bound that is None is the
\* first (last) audio timestamp and excludes nothing
InWindowAsked(self, row) ==
    /\ IsNone(self.start_datetime) \/ self.start_datetime.v <= row.timestamps
    /\ IsNone(self.end_datetime) \/ row.timestamps <= self.end_datetime.v

\* the station has an audio sensor with a sample inside the window asked for
AudioInWindow(self, st) ==
    /\ HasAudioData(st)
    /\ \E j \in 1..Len(AudioSensor(st).data_df) :
           InWindowAsked(self, AudioSensor(st).data_df[j])

\* a station of the directory with the timestamps read_data works on
AsCorrected(self, st) == IF self.apply_correction THEN UpdateTimestamps(st) ELSE st

\* C11: after read_data every station still present has an audio sensor with
\* samples inside the window, for any number and order of loaded stations
C11_RetainedHaveAudio ==
    WindowRead => \A st \in Retained : AudioInWindow(window.self, st)

\* C12: with station_ids None or empty read_data ends without error and
\* every station of the directory with audio inside the window is loaded
C12_NoIdsLoadsAll ==
    (/\ window.stage = "done"
     /\ (~window.self.ids_given \/ window.self.station_ids = {})) =>
        /\ window.read.kind = "ok"
        /\ \A i \in 1..Len(window.directory) :
               AudioInWindow(window.self,
                             AsCorrected(window.self, window.directory[i]))
                   => \E st \in Retained : st.id = i

\* the rows of a frame that hold real data
RealRows(df) == SelectSeq(df, LAMBDA r : ~IsNaN(r.data))

\* no two consecutive rows between the first and the last real row are
\* further apart than the sample interval
NoGapInside(sensor) ==
    LET df == SortValues(sensor.data_df)
    IN  \A i \in 1..(Len(df) - 1) :
            (/\ df[i].timestamps >= FirstTimestamp(RealRows(df))
             /\ df[i + 1].timestamps <= LastTimestamp(RealRows(df)))
                => df[i + 1].timestamps - df[i].timestamps
                       <= sensor.sample_interval_s.v

\* C13: with a window [t0, t1] and paddings, on a station whose audio lies
\* inside [t0, t1], every sensor series with samples in the window covers
\* [t0 - start_padding, t1 + end_padding] and has no gap inside its data
C13_CoversPaddedRange ==
    (/\ WindowRead
     /\ ~IsNone(window.self.start_datetime)
     /\ ~IsNone(window.self.end_datetime)) =>
        \A st \in Retained :
            (\A j \in 1..Len(AudioSensor(window.directory[st.id]).data_df) :
                InWindowAsked(window.self,
                    AudioSensor(AsCorrected(window.self,
                                            window.directory[st.id])).data_df[j]))
            => \A sensor \in SensorsOf(st) :
                   (/\ ~IsSampleIntervalInvalid(sensor)
                    /\ RealRows(RowsWithin(sensor.data_df, WindowStart, WindowEnd))
                           # <<>>)
                   => /\ FirstTimestamp(sensor.data_df)
                             <= WindowStart - window.self.start_padding_s.v
                      /\ LastTimestamp(sensor.data_df)
                             >= WindowEnd + window.self.end_padding_s.v
                      /\ NoGapInside(sensor)

\* C14: gaps are filled against max(gap_time_s, sample_interval_s): between
\* two real samples no further apart than that no row has been added
C14_ConfiguredGapTime ==
    WindowRead =>
        \A st \in Retained : \A sensor \in SensorsOf(st) :
            ~IsSampleIntervalInvalid(sensor) =>
                LET df == sensor.data_df
                    real == RealRows(df)
                IN  \A a \in 1..Len(real), b \in 1..Len(real) :
                        (/\ real[a].timestamps < real[b].timestamps
                         /\ real[b].timestamps - real[a].timestamps
                                <= ThresholdOf(window.self.gap_time_s,
                                               sensor.sample_interval_s))
                        => \A k \in 1..Len(df) :
                               (/\ real[a].timestamps < df[k].timestamps
                                /\ df[k].timestamps < real[b].timestamps)
                                   => ~IsNaN(df[k].data)

\* C18: every loaded station that has audio data is corrected when
\* correction is enabled, has its packets and its audio truncated to the
\* window and its audio padded to it, whatever the other stations are
C18_EachStationProcessed ==
    WindowRead =>
        \A st \in Retained :
            HasAudioData(st) =>
                /\ window.self.apply_correction => st.corrected
                /\ ~IsNone(st.packet_gap_time_s)
                /\ ~IsNone(st.episode_start_timestamp_s)
                /\ \A j \in 1..Len(st.packet_data) :
                       /\ st.packet_data[j].data_end_timestamp
                              > st.episode_start_timestamp_s.v
                       /\ st.packet_data[j].data_start_timestamp
                              < st.episode_end_timestamp_s.v
                /\ FirstTimestamp(AudioSensor(st).data_df)
                       = st.episode_start_timestamp_s.v
                /\ LastTimestamp(AudioSensor(st).data_df)
                       = st.episode_end_timestamp_s.v

\* C19: in a station that went through the loop, whatever its other sensors
\* hold, no sensor keeps a sample outside the window and every sensor with
\* real samples in the window and a valid interval is padded to the window
C19_SiblingsProcessed ==
    WindowRead =>
        \A st \in Retained :
            ~IsNone(st.episode_start_timestamp_s) =>
                \A sensor \in SensorsOf(st) :
                    /\ \A j \in 1..Len(sensor.data_df) :
                           /\ st.episode_start_timestamp_s.v
                                  <= sensor.data_df[j].timestamps
                           /\ sensor.data_df[j].timestamps
                                  <= st.episode_end_timestamp_s.v
                    /\ (/\ sensor.data_df # <<>>
                        /\ ~IsSampleIntervalInvalid(sensor))
                       => /\ FirstTimestamp(sensor.data_df)
                                 = st.episode_start_timestamp_s.v
                          /\ LastTimestamp(sensor.data_df)
                                 = st.episode_end_timestamp_s.v

----------------------------------------------------------------------------
(* The split of gap_filler (lines 246-253) against the scan of lines        *)
(* 236-244, checked under SpecFill                                          *)

\* the scan of lines 236-244 applied to the whole frame, whatever its size
DirectScan(data_df, sample_interval_s, gap_duration_s) ==
    LET data_time_stamps == TimestampsOf(SortValues(data_df))
        num_points == Len(data_time_stamps)
        expected_num_points ==
            IntDiv(MicrosecondsToSeconds(data_time_stamps[num_points]
                                         - data_time_stamps[1]),
                   sample_interval_s) + 1
        gap == Sec(ThresholdOf(gap_duration_s, sample_interval_s))
    IN  IF num_points >= expected_num_points THEN SortValues(data_df)
        ELSE SortValues(FillGaps(data_df, data_time_stamps,
                                 sample_interval_s, gap))

\* C21: for a frame of SplitThreshold rows or more, gap_filler gives what
\* the direct scan over the whole frame gives, a gap between the two halves
\* included
C21_SplitEqualsDirect ==
    (/\ filling.stage \in {"once", "twice"}
     /\ Len(filling.data_df) >= SplitThreshold) =>
        filling.result_df = DirectScan(filling.data_df, filling.sample_interval_s,
                                       filling.gap_duration_s)

\* the recursive calls of gap_filler with the first half taken as the whole
\* frame and the second as nothing
GapFillerCallsNoHalving(data_df, sample_interval_s, gap_duration_s, depth) ==
    LET data_time_stamps == TimestampsOf(SortValues(data_df))
        num_points == Len(data_time_stamps)
        expected_num_points ==
            IntDiv(MicrosecondsToSeconds(data_time_stamps[num_points]
                                         - data_time_stamps[1]),
                   sample_interval_s) + 1
    IN  IF num_points < expected_num_points /\ num_points >= SplitThreshold
        THEN {[rows |-> num_points, passed |-> num_points, depth |-> depth + 1],
              [rows |-> num_points, passed |-> 0, depth |-> depth + 1]}
        ELSE {}

RECURSIVE GapFillerCalls(_, _, _, _)
\* the recursive calls gap_filler makes (lines 247-252) when called at the
\* given depth: for each, the rows of the caller, the rows passed on and
\* the depth of the call
GapFillerCalls(data_df, sample_interval_s, gap_duration_s, depth) ==
    LET data_time_stamps == TimestampsOf(SortValues(data_df))
        num_points == Len(data_time_stamps)
        expected_num_points ==
            IntDiv(MicrosecondsToSeconds(data_time_stamps[num_points]
                                         - data_time_stamps[1]),
                   sample_interval_s) + 1
        gap == Sec(ThresholdOf(gap_duration_s, sample_interval_s))
        half_samples == num_points \div 2
        first_data_df == SubSeq(data_df, 1, half_samples)
        second_data_df == SubSeq(data_df, half_samples + 1, num_points)
    IN  IF num_points < expected_num_points /\ num_points >= SplitThreshold
        THEN {[rows |-> num_points, passed |-> Len(first_data_df),
               depth |-> depth + 1],
              [rows |-> num_points, passed |-> Len(second_data_df),
               depth |-> depth + 1]}
             \cup GapFillerCalls(first_data_df, sample_interval_s, gap, depth + 1)
             \cup GapFillerCalls(second_data_df, sample_interval_s, gap, depth + 1)
        ELSE {}

RECURSIVE Log2(_)
\* the integer part of the logarithm to base 2
Log2(n) == IF n <= 1 THEN 0 ELSE 1 + Log2(n \div 2)

\* the recursive calls of the gap_filler call of the specification
CallsMade ==
    GapFillerCalls(filling.data_df, filling.sample_interval_s,
                   filling.gap_duration_s, 0)

\* C22: gap_filler returns, every recursive call receives at least one row
\* and fewer rows than its caller, and no call is deeper than log2 of the
\* number of input rows
C22_Terminates ==
    filling.stage \in {"once", "twice"} =>
        /\ Len(filling.result_df) >= Len(filling.data_df)
        /\ \A c \in CallsMade :
               /\ 1 <= c.passed
               /\ c.passed < c.rows
               /\ c.depth <= Log2(Len(filling.data_df))

\* a frame whose first half is split again
C22_Witness ==
    /\ filling.stage = "once"
    /\ Len(filling.data_df) = 2 * SplitThreshold
    /\ \E c \in CallsMade : c.depth = 2 /\ c.rows = SplitThreshold

----------------------------------------------------------------------------
(* Specification of the frame functions together: one call of data_padder  *)
(* or of gap_filler, with the arguments of SpecPad and of SpecFill          *)

InitFrames == InitPad \/ InitFill

NextFrames == CallDataPadder \/ CallGapFiller \/ CallGapFillerAgain

SpecFrames == InitFrames /\ [][NextFrames]_vars

\* the timestamps of the rows data_padder added; the rows handed in all
\* hold data
AddedRows(df) == SelectSeq(df, LAMBDA r : IsNaN(r.data))

\* C23 as stated: every row added at the front is a whole number k >= 1 of
\* sample intervals before the first sample, every row added at the end a
\* whole number k >= 1 of sample intervals after the last one
C23_AsStated ==
    padding.stage = "done" =>
        \A i \in 1..Len(AddedRows(padding.result_df)) :
            LET t == AddedRows(padding.result_df)[i].timestamps
                first == FirstTimestamp(padding.data_df)
                last_ == LastTimestamp(padding.data_df)
            IN  \/ t < first /\ (first - t) % padding.sample_interval_s.v = 0
                \/ t > last_ /\ (t - last_) % padding.sample_interval_s.v = 0

\* the rows of out beyond those of in are as many as its NaN rows, and
\* every row of out is a row of in or has NaN as data
OnlyNaNAdded(in, out) ==
    /\ Len(AddedRows(out)) = Len(out) - Len(in)
    /\ LET held == SelectSeq(out, LAMBDA r : ~IsNaN(r.data))
       IN  {held[i] : i \in 1..Len(held)} \subseteq {in[j] : j \in 1..Len(in)}

\* C26: every row gap_filler or data_padder adds, through create_empty_df,
\* has a timestamp and NaN in its data column
C26_AddedRowsAreNaN ==
    /\ padding.stage = "done" => OnlyNaNAdded(padding.data_df, padding.result_df)
    /\ filling.stage \in {"once", "twice"} =>
           OnlyNaNAdded(filling.data_df, filling.result_df)
    /\ filling.stage = "twice" =>
           OnlyNaNAdded(filling.data_df, filling.again_df)

\* gap_filler added rows on its split path
C26_Witness ==
    /\ filling.stage = "once"
    /\ Len(filling.data_df) >= SplitThreshold
    /\ Len(AddedRows(filling.result_df)) >= 2 * GapRows

\* no two rows of the frame have the same timestamp
DistinctTimestamps(df) ==
    Cardinality({df[i].timestamps : i \in 1..Len(df)}) = Len(df)

\* C27: the timestamps of the input being pairwise distinct, so are those of
\* the output of data_padder and of gap_filler
C27_DistinctTimestamps ==
    /\ padding.stage = "done" => DistinctTimestamps(padding.result_df)
    /\ filling.stage \in {"once", "twice"} =>
           DistinctTimestamps(filling.result_df)

\* out is in ascending timestamp order and its rows that hold data are the
\* rows of in, each once (their timestamps are pairwise distinct)
SortedWithAllRows(in, out) ==
    /\ \A i \in 1..(Len(out) - 1) : out[i].timestamps <= out[i + 1].timestamps
    /\ SelectSeq(out, LAMBDA r : ~IsNaN(r.data)) = SortValues(in)

----------------------------------------------------------------------------
(* The time array of update_evenly_sampled_time_array, under SpecArray      *)

\* the start times the call worked from
StartTimesUsed ==
    IF last.args.given THEN last.args.time_start_array
    ELSE [i \in 1..Len(timesync_data) |->
             MicrosToSeconds(timesync_data[i].packet_start_time)]

\* a call on a validated analysis with a usable sample rate, numeric start
\* times and an integer num_samples >= 1
ValidatedCall ==
    /\ last.op = "update_evenly_sampled_time_array"
    /\ Len(timesync_data) >= 1
    /\ AllAgree
    /\ LengthFits
    /\ IsNum(sample_rate_hz) /\ sample_rate_hz.v > 0
    /\ \A i \in 1..Len(timesync_data) :
           IsNum(timesync_data[i].packet_start_time)
    /\ IsNum(last.args.num_samples) /\ last.args.num_samples.v >= 1

\* the array has P * n elements, each 1 / sample_rate_hz after the one
\* before, and the element at b * n is time_start_array[b]
EvenArrayAroundBest ==
    /\ last.kind = "ok"
    /\ Len(last.list) = Len(timesync_data) * last.args.num_samples.v
    /\ \A i \in 1..(Len(last.list) - 1) :
           /\ last.list[i].v < last.list[i + 1].v
           /\ last.list[i + 1].v - last.list[i].v
                  = MICROSECONDS_IN_SECOND \div sample_rate_hz.v
    /\ last.list[best_latency_index * last.args.num_samples.v + 1]
           = StartTimesUsed[best_latency_index + 1]

\* C24 as stated: on a validated analysis of P packets, with integer
\* num_samples n >= 1 and best index b, update_evenly_sampled_time_array
\* returns P * n strictly ascending elements, consecutive ones
\* 1 / sample_rate_hz apart, the one at position b * n being
\* time_start_array[b]
C24_EvenArray == ValidatedCall => EvenArrayAroundBest

----------------------------------------------------------------------------
(* The aggregate fields of the TimeSyncAnalysis, under Spec                 *)

\* a packet after the first reports another sample rate, or none
RateDiffers ==
    \E i \in 2..Len(timesync_data) :
        timesync_data[i].sample_rate_hz # timesync_data[1].sample_rate_hz
        \/ IsNone(timesync_data[i].sample_rate_hz)

\* a packet after the first reports another station start timestamp
StartDiffers ==
    \E i \in 2..Len(timesync_data) :
        timesync_data[i].station_start_timestamp
            # timesync_data[1].station_start_timestamp

\* C25: once a packet has been added, sample_rate_hz and
\* station_start_timestamp are those of the first packet, whatever is added
\* later; add_timesync_data does not raise, and with a later packet that
\* differs the validation returns False without raising
C25_FirstPacketKept ==
    Len(timesync_data) >= 1 =>
        /\ sample_rate_hz = timesync_data[1].sample_rate_hz
        /\ station_start_timestamp = timesync_data[1].station_start_timestamp
        /\ last.op = "add_timesync_data" => last.kind = "ok"
        /\ RateDiffers => ValidateSampleRate(Self) = Ret(Self, Bool(FALSE))
        /\ StartDiffers => ValidateStartTimestamp(Self) = Ret(Self, Bool(FALSE))

\* a packet with another sample rate and one with another start timestamp
\* were added after the first
C25_Witness ==
    /\ last.op = "add_timesync_data"
    /\ Len(timesync_data) = 3
    /\ RateDiffers
    /\ StartDiffers
    /\ IsNum(sample_rate_hz)

----------------------------------------------------------------------------
(* RedVoxExceptions (src/redvox/common/errors.py).  Python lists are        *)
(* objects: heap[id] is the content of the list id, the container holds the *)
(* id of its list, and a list handed out shares its content with the        *)
(* container exactly when it has the same id.                               *)

\* errors a container holds at most
MaxErrors == 3

\* the list made by RedVoxExceptions.__init__ and the one made by get()
OwnList == 1

ReturnedList == 2

\* RedVoxError(message): obj_class is the class named in front of the
\* message, 0 when there is none
RedVoxError(obj_class, msg) == [obj_class |-> obj_class, msg |-> msg]

\* RedVoxExceptions(obj_class)
NewRedVoxExceptions(obj_class) ==
    [_obj_class |-> obj_class, _errors |-> OwnList, _num_errors |-> 0,
     heap |-> <<<<>>, <<>>>>]

\* get() handing out the container's own list
ExceptionsGetSharing(self) == [heap |-> self.heap, list |-> self._errors]

\* get(): [a for a in self._errors], a new list
ExceptionsGet(self) ==
    [heap |-> [self.heap EXCEPT ![ReturnedList] = self.heap[self._errors]],
     list |-> ReturnedList]

\* get_num_errors()
ExceptionsGetNumErrors(self) == self._num_errors

\* append(msg)
ExceptionsAppend(self, msg) ==
    [self EXCEPT
        !.heap[self._errors] = Append(@, RedVoxError(self._obj_class, msg)),
        !._num_errors = @ + 1]

\* append_error(error)
ExceptionsAppendError(self, error) ==
    [self EXCEPT !.heap[self._errors] = Append(@, error),
                 !._num_errors = @ + 1]

\* extend(msgs)
ExceptionsExtend(self, msgs) ==
    [self EXCEPT
        !.heap[self._errors] =
            @ \o [i \in 1..Len(msgs) |-> RedVoxError(0, msgs[i])],
        !._num_errors = @ + Len(msgs)]

\* extend_error(errors): errors.get() is evaluated, the list extended with
\* it, and then errors.get_num_errors() is added to the counter read before;
\* errors.is_self says that errors is the container itself
ExceptionsExtendError(self, errors) ==
    LET got == ExceptionsGet(self)
        given == IF errors.is_self THEN got.heap[got.list] ELSE errors._errors
        extended == [self EXCEPT !.heap[self._errors] = @ \o given]
        num == IF errors.is_self THEN ExceptionsGetNumErrors(extended)
               ELSE errors._num_errors
    IN  [extended EXCEPT !._num_errors = self._num_errors + num]

----------------------------------------------------------------------------
(* Specification of the error container: the methods are called in any     *)
(* order on a new container, a list it returned is changed by the caller   *)

Messages == {1, 2}

\* the errors handed to append_error
GivenErrors == {RedVoxError(3, 1)}

\* the message lists handed to extend
MessageLists == UNION {[1..n -> Messages] : n \in 0..2}

\* another container, after k calls of append, and the container itself
OtherExceptions ==
    {[is_self |-> FALSE,
      _errors |-> [i \in 1..k |-> RedVoxError(2, 1)],
      _num_errors |-> k] : k \in 0..2}
    \cup {[is_self |-> TRUE, _errors |-> <<>>, _num_errors |-> 0]}

\* what the caller appends to a list it got
CallerError == RedVoxError(9, 9)

InitErrors ==
    /\ data_pack = NoPacket
    /\ station = NoStation
    /\ tsd = [kind |-> "none", obj |-> TimeSyncData0]
    /\ InitAnalysisFields
    /\ NoDataWindow
    /\ mapping = [stage |-> "none"]
    /\ exceptions = [stage |-> "made", self |-> NewRedVoxExceptions(1),
                     returned |-> 0, inserted |-> <<>>, doubled |-> FALSE]

\* a method that inserts: self is the container afterwards, added the
\* errors the call was to insert, in order; a list got before is dropped
Inserted(self, added, doubles) ==
    /\ exceptions.stage # "none"
    /\ Len(exceptions.inserted) + Len(added) <= MaxErrors
    /\ exceptions' = [stage |-> "made",
                      self |-> [self EXCEPT !.heap[ReturnedList] = <<>>],
                      returned |-> 0,
                      inserted |-> exceptions.inserted \o added,
                      doubled |-> exceptions.doubled \/ doubles]
    /\ UNCHANGED <<tsdVars, tsaVars, last, dwVars, mapping>>

CallAppend ==
    /\ exceptions.stage # "none"
    /\ \E msg \in Messages :
           Inserted(ExceptionsAppend(exceptions.self, msg),
                    <<RedVoxError(exceptions.self._obj_class, msg)>>, FALSE)

CallAppendError ==
    /\ exceptions.stage # "none"
    /\ \E error \in GivenErrors :
           Inserted(ExceptionsAppendError(exceptions.self, error),
                    <<error>>, FALSE)

CallExtend ==
    /\ exceptions.stage # "none"
    /\ \E msgs \in MessageLists :
           Inserted(ExceptionsExtend(exceptions.self, msgs),
                    [i \in 1..Len(msgs) |-> RedVoxError(0, msgs[i])], FALSE)

CallExtendError ==
    /\ exceptions.stage # "none"
    /\ \E errors \in OtherExceptions :
           Inserted(ExceptionsExtendError(exceptions.self, errors),
                    IF errors.is_self THEN exceptions.inserted
                    ELSE errors._errors,
                    errors.is_self /\ exceptions.inserted # <<>>)

\* returned = container.get()
CallGet ==
    /\ exceptions.stage # "none"
    /\ exceptions' =
           [exceptions EXCEPT
               !.stage = "got",
               !.self.heap = ExceptionsGet(exceptions.self).heap,
               !.returned = ExceptionsGet(exceptions.self).list]
    /\ UNCHANGED <<tsdVars, tsaVars, last, dwVars, mapping>>

\* returned.append(...) or del returned[0], by the caller
ChangeReturned ==
    /\ exceptions.stage = "got"
    /\ \/ exceptions' =
              [exceptions EXCEPT
                  !.stage = "changed",
                  !.self.heap[exceptions.returned] = Append(@, CallerError)]
       \/ /\ exceptions.self.heap[exceptions.returned] # <<>>
          /\ exceptions' =
                 [exceptions EXCEPT
                     !.stage = "changed",
                     !.self.heap[exceptions.returned] = Tail(@)]
    /\ UNCHANGED <<tsdVars, tsaVars, last, dwVars, mapping>>

NextErrors ==
    \/ CallAppend
    \/ CallAppendError
    \/ CallExtend
    \/ CallExtendError
    \/ CallGet
    \/ ChangeReturned

SpecErrors == InitErrors /\ [][NextErrors]_vars

\* the content of the list get() returns
GetNow ==
    ExceptionsGet(exceptions.self).heap[ExceptionsGet(exceptions.self).list]

\* C29: after any calls of append, append_error, extend and extend_error,
\* the container itself as argument included, get_num_errors() is
\* len(get()), get() is the errors in the order they were inserted, and
\* this stays so when a list got from get() has been changed
C29_CounterIsLength ==
    exceptions.stage # "none" =>
        /\ ExceptionsGetNumErrors(exceptions.self) = Len(GetNow)
        /\ GetNow = exceptions.inserted
        /\ exceptions.returned # 0 =>
               exceptions.returned # exceptions.self._errors

\* the container was extended with itself, and a list it returned changed
C29_Witness ==
    /\ exceptions.stage = "changed"
    /\ exceptions.doubled
    /\ ExceptionsGetNumErrors(exceptions.self) = MaxErrors
    /\ exceptions.self.heap[exceptions.returned] # GetNow

----------------------------------------------------------------------------
(* The metadata functions of src/redvox/api1000/common.py.  A mapping is   *)
(* the set of its items [key, value], a dictionary the sequence of its     *)
(* items in insertion order, which is the order items() yields them in.    *)

\* items of the dictionary handed to set_metadata
MaxEntries == 2

\* isinstance(x, str)
IsInstanceStr(x) == x.k = "str"

\* mutable_mapping[key] = value
SetItem(mutable_mapping, key, value) ==
    {it \in mutable_mapping : it.key # key} \cup {[key |-> key, value |-> value]}

\* the second loop of set_metadata, from item i on
RECURSIVE SetItemsFrom(_, _, _)
SetItemsFrom(mutable_mapping, metadata, i) ==
    IF i > Len(metadata) THEN mutable_mapping
    ELSE SetItemsFrom(SetItem(mutable_mapping, metadata[i].key, metadata[i].value),
                      metadata, i + 1)

\* set_metadata clearing the mapping first and testing each item as it is
\* put in
RECURSIVE SetMetadataClearingFirstFrom(_, _, _)
SetMetadataClearingFirstFrom(mutable_mapping, metadata, i) ==
    IF i > Len(metadata) THEN [mutable_mapping |-> mutable_mapping, val |-> None]
    ELSE IF ~IsInstanceStr(metadata[i].key)
    THEN [mutable_mapping |-> mutable_mapping, val |-> metadata[i].key]
    ELSE IF ~IsInstanceStr(metadata[i].value)
    THEN [mutable_mapping |-> mutable_mapping, val |-> metadata[i].value]
    ELSE SetMetadataClearingFirstFrom(
             SetItem(mutable_mapping, metadata[i].key, metadata[i].value),
             metadata, i + 1)

SetMetadataClearingFirst(mutable_mapping, metadata) ==
    SetMetadataClearingFirstFrom({}, metadata, 1)

\* the first loop of set_metadata, from item i on: what it returns, Unset
\* when it runs to its end
RECURSIVE ValidateFrom(_, _)
ValidateFrom(metadata, i) ==
    IF i > Len(metadata) THEN Unset
    ELSE IF ~IsInstanceStr(metadata[i].key) THEN metadata[i].key
    ELSE IF ~IsInstanceStr(metadata[i].value) THEN metadata[i].value
    ELSE ValidateFrom(metadata, i + 1)

\* set_metadata(mutable_mapping, metadata): the mapping afterwards and the
\* value returned
SetMetadata(mutable_mapping, metadata) ==
    IF ValidateFrom(metadata, 1) # Unset
    THEN [mutable_mapping |-> mutable_mapping, val |-> ValidateFrom(metadata, 1)]
    ELSE [mutable_mapping |-> SetItemsFrom({}, metadata, 1), val |-> None]

\* append_metadata(mutable_mapping, key, value)
AppendMetadata(mutable_mapping, key, value) ==
    IF ~IsInstanceStr(key)
    THEN [mutable_mapping |-> mutable_mapping, val |-> key]
    ELSE IF ~IsInstanceStr(value)
    THEN [mutable_mapping |-> mutable_mapping, val |-> value]
    ELSE [mutable_mapping |-> SetItem(mutable_mapping, key, value), val |-> None]

----------------------------------------------------------------------------
(* Specification of the metadata functions: set_metadata and               *)
(* append_metadata are called in any order on a mapping that starts empty  *)

MetadataKeys == {Str(1), Str(2), Num(1)}

MetadataValues == {Str(1), Str(2), Num(1), None}

MetadataItems == [key : MetadataKeys, value : MetadataValues]

\* the dictionaries of up to MaxEntries items; the keys of a dictionary are
\* pairwise distinct
Dictionaries ==
    {d \in UNION {[1..n -> MetadataItems] : n \in 0..MaxEntries} :
        \A i \in 1..Len(d), j \in 1..Len(d) : i # j => d[i].key # d[j].key}

InitMetadata ==
    /\ data_pack = NoPacket
    /\ station = NoStation
    /\ tsd = [kind |-> "none", obj |-> TimeSyncData0]
    /\ InitAnalysisFields
    /\ NoDataWindow
    /\ exceptions = [stage |-> "none"]
    /\ mapping = [stage |-> "made", mutable_mapping |-> {}, before |-> {},
                   op |-> "none", given |-> <<>>, val |-> None]

\* val = set_metadata(mutable_mapping, given)
CallSetMetadata ==
    /\ mapping.stage # "none"
    /\ \E given \in Dictionaries :
           mapping' =
               [stage |-> "called",
                mutable_mapping |->
                    SetMetadata(mapping.mutable_mapping, given).mutable_mapping,
                before |-> mapping.mutable_mapping,
                op |-> "set_metadata",
                given |-> given,
                val |-> SetMetadata(mapping.mutable_mapping, given).val]
    /\ UNCHANGED <<tsdVars, tsaVars, last, dwVars, exceptions>>

\* val = append_metadata(mutable_mapping, key, value)
CallAppendMetadata ==
    /\ mapping.stage # "none"
    /\ \E it \in MetadataItems :
           mapping' =
               [stage |-> "called",
                mutable_mapping |->
                    AppendMetadata(mapping.mutable_mapping, it.key,
                                   it.value).mutable_mapping,
                before |-> mapping.mutable_mapping,
                op |-> "append_metadata",
                given |-> <<it>>,
                val |-> AppendMetadata(mapping.mutable_mapping, it.key,
                                       it.value).val]
    /\ UNCHANGED <<tsdVars, tsaVars, last, dwVars, exceptions>>

NextMetadata ==
    \/ CallSetMetadata
    \/ CallAppendMetadata

SpecMetadata == InitMetadata /\ [][NextMetadata]_vars

\* the keys and values of the dictionary in the order set_metadata looks at
\* them: key 1, value 1, key 2, value 2, ...
KeysAndValues(d) ==
    [n \in 1..(2 * Len(d)) |->
        IF n % 2 = 1 THEN d[(n + 1) \div 2].key ELSE d[n \div 2].value]

\* the positions of those that are not strings
Offending(d) ==
    {n \in 1..(2 * Len(d)) : ~IsInstanceStr(KeysAndValues(d)[n])}

\* C30: set_metadata returns the first key or value of the dictionary that
\* is not a string and leaves the mapping as it was, or, all being strings,
\* returns None and leaves the mapping with exactly the items of the
\* dictionary; append_metadata leaves the mapping as it was when it returns
\* something other than None
C30_AllOrNothing ==
    /\ (mapping.stage = "called" /\ mapping.op = "set_metadata") =>
           IF Offending(mapping.given) # {}
           THEN /\ \E n \in Offending(mapping.given) :
                       /\ \A m \in Offending(mapping.given) : n <= m
                       /\ mapping.val = KeysAndValues(mapping.given)[n]
                /\ mapping.mutable_mapping = mapping.before
           ELSE /\ mapping.val = None
                /\ mapping.mutable_mapping
                       = {mapping.given[i] : i \in 1..Len(mapping.given)}
    /\ (mapping.stage = "called" /\ mapping.op = "append_metadata"
        /\ mapping.val # None) =>
           mapping.mutable_mapping = mapping.before

\* set_metadata refused a dictionary whose first item was good and whose
\* second was not, the mapping holding items
C30_Witness ==
    /\ mapping.stage = "called"
    /\ mapping.op = "set_metadata"
    /\ Len(mapping.given) = 2
    /\ Offending(mapping.given) = {4}
    /\ mapping.val = Num(1)
    /\ Cardinality(mapping.before) = 2
    /\ mapping.given[1] \notin mapping.before

====
